---- MODULE Spec2Model ----
(***************************************************************************)
(* Model of the network monitor orchestrator NMO.py: the latest-batch      *)
(* alert evaluation analyze_results(csv_path) over the CSV log written by  *)
(* the external collector.                                                 *)
(*                                                                         *)
(* A CSV cell is modelled by the text (or, for timestamps, the instant)    *)
(* the file holds; the pandas conversions of analyze_results are the       *)
(* operators to_datetime, to_numeric and CoerceSuccess.  Time is counted   *)
(* in ticks of half a second, so that two instants of one second differ    *)
(* as timestamps and agree once formatted with '%Y-%m-%d %H:%M:%S'.        *)
(***************************************************************************)
EXTENDS Integers, Sequences, FiniteSets, TLC

VARIABLES
    csv_file,   \* the file at csv_log_path: [kind, rows]
    pc,         \* "start" before analyze_results is called, "done" after it returned,
                \* "raised" after an exception left it; in a run of __main__ also
                \* "checks", "collector", "email", "finished" and "exited"
    now,        \* the instant datetime.now() gave analyze_results (NaT before the call)
    frame,      \* the locals of analyze_results that hold its decision, as bound at its return
    ret,        \* the value analyze_results returned: <<send_alert, timestamp string>>
    caught,     \* the exception an except clause of analyze_results handled, "none" if none
    scripts,    \* the script files present in SCRIPT_DIR
    graph_file, \* the file at graph_output_path: "absent", "empty", "stale" (a graph
                \* an earlier run left) or "fresh" (a graph the plotter of this run wrote)
    main,       \* the locals of the __main__ block, as they are bound
    calls,      \* the functions __main__ has called, in order, with what they were given
    earlier,    \* the results of the earlier invocations of analyze_results on this log
    call,       \* a function called on its own: its arguments, or what its subprocess
                \* gives; for the month prompt, the lines left on standard input
    out         \* what that call kept or returned; for the prompt, its locals

\* The state of one run of the orchestrator around analyze_results.
mainVars == <<scripts, graph_file, main, calls>>

\* The state of a call of a plotting function.
plotVars == <<call, out>>

vars ==
    <<csv_file, pc, now, frame, ret, caught, scripts, graph_file, main, calls, earlier,
      call, out>>

----------------------------------------------------------------------------
(* Bounds of the model *)

\* Largest instant (in ticks) a timestamp or the wall clock takes.
MaxTime == 2

\* Largest number of data rows of the CSV log.
MaxRows == 2

----------------------------------------------------------------------------
(* Cells of the CSV log *)

\* Ticks per second: strftime('%Y-%m-%d %H:%M:%S') drops the fraction of a second.
TicksPerSecond == 2

\* A Timestamp cell that is empty: read_csv gives NaN, to_datetime gives NaT.
NaT == -1

\* A Timestamp cell holding text pd.to_datetime cannot parse.
Unparseable == -2

\* The value pd.to_numeric(errors='coerce') gives for a cell it cannot convert.
NaN == -1

Times == 0 .. MaxTime

\* The instants the wall clock shows when analyze_results is called: the
\* earliest and the latest instant of the model.
Clock == {0, MaxTime}

TimestampCells == Times \cup {NaT, Unparseable}

\* Text of a TargetPort cell: two numbers, an empty cell, a non-numeric text.
PortCells == {"3389", "22", "", "n/a"}

SuccessCells == {"True", "False"}

\* (CheckType, TargetPort, Success) of the checks the log holds.
Checks ==
    ({"Inbound Listen Check"} \X PortCells \X {"False"})
      \cup ({"Inbound Listen Check"} \X {"3389"} \X {"True"})
      \cup ({"Outbound TCP"} \X {"22", "n/a"} \X {"False"})
      \cup ({"Outbound TCP"} \X {"22"} \X {"True"})
      \cup ({"Outbound ICMP"} \X {""} \X SuccessCells)
      \cup ({"DNS Resolution"} \X {"3389"} \X {"False"})
      \cup ({"DNS Resolution"} \X {""} \X {"True"})

\* The rows of the CSV log, as the file holds them.
CsvRows ==
    { [Timestamp |-> t, CheckType |-> c[1], TargetPort |-> c[2], Success |-> c[3]] :
        t \in TimestampCells, c \in Checks }

\* Sequences of at most n elements of S.
SeqUpTo(S, n) == UNION { [1 .. k -> S] : k \in 0 .. n }

\* The states of the file at csv_log_path:
\*   missing     no file;                 zero_bytes  a file of size 0;
\*   blank       a file with no header line (read_csv raises EmptyDataError);
\*   table       a header line and at most n rows (possibly none).
CsvFiles(n) ==
    { [kind |-> k, rows |-> <<>>] : k \in {"missing", "zero_bytes", "blank"} }
      \cup { [kind |-> "table", rows |-> r] : r \in SeqUpTo(CsvRows, n) }

----------------------------------------------------------------------------
(* pandas conversions *)

\* strftime with '%Y-%m-%d %H:%M:%S.%f': the fraction of the second kept.
strftime_KeepsFraction(t) == t

\* now.strftime('%Y-%m-%d %H:%M:%S') and latest_timestamp.strftime(...): the
\* string is identified by the whole second it shows.
strftime(t) == t \div TicksPerSecond

\* pd.read_csv: the rows of the file, each with its index label and the
\* columns the file has.
read_csv(file) ==
    [ i \in 1 .. Len(file.rows) |-> [Index |-> i] @@ file.rows[i] ]

\* df[name] raises KeyError: the frame has no column of that name.
KeyError(df, name) == name \notin DOMAIN df[1]

\* pd.to_datetime(df['Timestamp']) with the default errors='raise': one cell that
\* does not parse raises for the whole column.
to_datetime_raises(df) == \E i \in 1 .. Len(df) : df[i].Timestamp = Unparseable

\* pd.to_datetime of one cell of a column that converts: an instant, or NaT for
\* an empty cell.
to_datetime(cell) == IF cell \in Nat THEN cell ELSE NaT

\* pd.to_numeric followed by fillna(3389): a cell that is not a number counts
\* as the RDP port.
to_numeric_BadPortIs3389(cell) ==
    CASE cell = "3389" -> 3389
      [] cell = "22" -> 22
      [] OTHER -> 3389

\* pd.to_numeric(df['TargetPort'], errors='coerce') of one cell.
to_numeric(cell) ==
    CASE cell = "3389" -> 3389
      [] cell = "22" -> 22
      [] OTHER -> NaN

\* str.lower() of the texts the Success column holds.
lower(s) ==
    CASE s \in {"True", "TRUE", "true"} -> "true"
      [] s \in {"False", "FALSE", "false"} -> "false"
      [] s \in {"Yes", "YES", "yes"} -> "yes"
      [] s \in {"No", "NO", "no"} -> "no"
      [] OTHER -> s

\* df['Success'] after lines 126-129, for one cell: the map of the lower-cased
\* text, then astype('boolean').fillna(False) (a text the map does not know
\* becomes NaN and then False).
CoerceSuccess(cell) ==
    CASE lower(cell) \in {"true", "yes"} -> TRUE
      [] lower(cell) \in {"false", "no"} -> FALSE
      [] OTHER -> FALSE

\* The texts read_csv takes for booleans, and the numbers of the Success cells.
BoolLiterals == {"True", "False", "TRUE", "FALSE", "true", "false"}

NumberLiterals == {"0", "1", "2"}

\* The dtype read_csv infers for the Success column: bool when every cell is
\* a boolean literal, a numeric dtype (int64, or float64 with NaN for the
\* empty cells) when every cell is a number or empty, object otherwise.
SuccessDtype(df) ==
    IF \A i \in 1 .. Len(df) : df[i].Success \in BoolLiterals THEN "bool"
    ELSE IF \A i \in 1 .. Len(df) : df[i].Success \in NumberLiterals \cup {""}
    THEN "number"
    ELSE "object"

\* astype('boolean') of a numeric column raises TypeError ("Need to pass
\* bool-like values") when a value is neither 0, 1 nor NaN.
astype_boolean_raises(df) ==
    /\ SuccessDtype(df) = "number"
    /\ \E i \in 1 .. Len(df) : df[i].Success \notin {"0", "1", ""}

\* A cell of df['Success'] after lines 126-129, in a column of the given
\* dtype: an object column is mapped from its text; a numeric column is cast,
\* 1 to True, 0 and NaN to False.
SuccessValue(dtype, cell) ==
    IF dtype = "number"
    THEN cell = "1"
    ELSE CoerceSuccess(cell)

\* The frame after the conversions of lines 119-129.
Convert(df) ==
    LET dtype == SuccessDtype(df)
    IN  [ i \in 1 .. Len(df) |->
            [Timestamp |-> to_datetime(df[i].Timestamp),
             TargetPort |-> to_numeric(df[i].TargetPort),
             Success |-> SuccessValue(dtype, df[i].Success)] @@ df[i] ]

----------------------------------------------------------------------------
(* The failure criteria of analyze_results *)

\* Criterion 1 without the port: every failed Inbound Listen Check.
IsRdpFailure_AnyPort(row) == row.CheckType = "Inbound Listen Check"

\* Criterion 1: RDP Listen Check Failure (Inbound, Port 3389).
IsRdpFailure(row) ==
    row.CheckType = "Inbound Listen Check" /\ row.TargetPort = 3389

\* Criterion 2: Any Outbound Check Failure (TCP or ICMP).
IsOutboundFailure(row) ==
    row.CheckType \in {"Outbound TCP", "Outbound ICMP"}

\* The mask of the critical_failures filter.
IsCriticalFailure(row) == IsRdpFailure(row) \/ IsOutboundFailure(row)

\* df['Timestamp'].isna().all()
AllTimestampsNa(df) == \A i \in 1 .. Len(df) : df[i].Timestamp = NaT

\* latest_timestamp as the end of the second that the maximum lies in.
MaxTimestamp_EndOfSecond(df) ==
    LET latest ==
            CHOOSE t \in { df[i].Timestamp : i \in 1 .. Len(df) } \ {NaT} :
                \A i \in 1 .. Len(df) : df[i].Timestamp = NaT \/ df[i].Timestamp <= t
    IN  (strftime(latest) + 1) * TicksPerSecond

\* df['Timestamp'].max(): the largest instant of the column, NaT skipped.
MaxTimestamp(df) ==
    CHOOSE t \in { df[i].Timestamp : i \in 1 .. Len(df) } \ {NaT} :
        \A i \in 1 .. Len(df) : df[i].Timestamp = NaT \/ df[i].Timestamp <= t

\* The batch as the rows within the second of latest_timestamp.
LatestResults_SameSecond(df, latest_timestamp) ==
    SelectSeq(df, LAMBDA row :
        row.Timestamp # NaT /\ strftime(row.Timestamp) = strftime(latest_timestamp))

\* df[df['Timestamp'] == latest_timestamp]
LatestResults(df, latest_timestamp) ==
    SelectSeq(df, LAMBDA row : row.Timestamp = latest_timestamp)

\* all_failures without the filter on Success.
AllFailures_AnySuccess(latest_results) == latest_results

\* latest_results[latest_results['Success'] == False]
AllFailures(latest_results) ==
    SelectSeq(latest_results, LAMBDA row : row.Success = FALSE)

\* critical_failures without the mask: every failure of the batch.
CriticalFailures_Unfiltered(all_failures) == all_failures

\* all_failures[critical mask]
CriticalFailures(all_failures) ==
    SelectSeq(all_failures, LAMBDA row : IsCriticalFailure(row))

\* all_failures[~(critical mask)]
NonCriticalFailures(all_failures) ==
    SelectSeq(all_failures, LAMBDA row : ~IsCriticalFailure(row))

----------------------------------------------------------------------------
(* analyze_results *)

\* A "cannot determine status" return that alerts: return True, now_str.
CannotDetermine_Alerts(now_str) ==
    [ret |-> <<TRUE, now_str>>,
     frame |-> [now_str |-> now_str, send_alert |-> TRUE]]

\* Every "cannot determine status" return: return False, now_str.
CannotDetermine(now_str) ==
    [ret |-> <<FALSE, now_str>>,
     frame |-> [now_str |-> now_str, send_alert |-> FALSE]]

\* An exception raised inside the try block of analyze_results.
Raise(exception) == [raised |-> exception]

\* Lines 146-202: the decision on the latest batch.
Classify(now_str, latest_timestamp, latest_results) ==
    LET latest_timestamp_str == strftime(latest_timestamp)
        all_failures == AllFailures(latest_results)
        is_rdp_failure == \E i \in 1 .. Len(all_failures) : IsRdpFailure(all_failures[i])
        is_outbound_failure ==
            \E i \in 1 .. Len(all_failures) : IsOutboundFailure(all_failures[i])
        send_alert == is_rdp_failure \/ is_outbound_failure
        common == [now_str |-> now_str,
                   latest_timestamp |-> latest_timestamp,
                   latest_timestamp_str |-> latest_timestamp_str,
                   latest_results |-> latest_results,
                   all_failures |-> all_failures]
    IN  IF all_failures = <<>>
        THEN [ret |-> <<FALSE, latest_timestamp_str>>,
              frame |-> [send_alert |-> FALSE] @@ common]
        ELSE IF KeyError(all_failures, "CheckType")
        THEN Raise("KeyError")
        ELSE IF send_alert
        THEN [ret |-> <<TRUE, latest_timestamp_str>>,
              frame |-> [send_alert |-> TRUE,
                         is_rdp_failure |-> is_rdp_failure,
                         is_outbound_failure |-> is_outbound_failure,
                         critical_failures |-> CriticalFailures(all_failures)]
                        @@ common]
        ELSE [ret |-> <<FALSE, latest_timestamp_str>>,
              frame |-> [send_alert |-> FALSE,
                         is_rdp_failure |-> is_rdp_failure,
                         is_outbound_failure |-> is_outbound_failure,
                         non_critical_failures |-> NonCriticalFailures(all_failures)]
                        @@ common]

\* Lines 131-144: the latest timestamp and the rows that carry it.
SelectLatest(now_str, df) ==
    IF AllTimestampsNa(df)
    THEN CannotDetermine(now_str)
    ELSE LET latest_timestamp == MaxTimestamp(df)
             latest_results == LatestResults(df, latest_timestamp)
         IN  IF latest_results = <<>>
             THEN [ret |-> <<FALSE, strftime(latest_timestamp)>>,
                   frame |-> [now_str |-> now_str, send_alert |-> FALSE,
                              latest_timestamp |-> latest_timestamp,
                              latest_timestamp_str |-> strftime(latest_timestamp),
                              latest_results |-> latest_results]]
             ELSE Classify(now_str, latest_timestamp, latest_results)

\* Lines 112-202, the body of the try block once the file is known to exist
\* and to be non-empty: what it returns, or the exception it raises.  The
\* try of lines 118-124 handles its own exceptions by returning.
TryBlock(file, now_str) ==
    IF file.kind = "blank"
    THEN Raise("EmptyDataError")
    ELSE LET df == read_csv(file)
         IN  IF df = <<>>
             THEN CannotDetermine(now_str)
             ELSE IF KeyError(df, "Timestamp") \/ KeyError(df, "TargetPort")
             THEN [caught |-> "KeyError"] @@ CannotDetermine(now_str)
             ELSE IF to_datetime_raises(df)
             THEN [caught |-> "ValueError"] @@ CannotDetermine(now_str)
             ELSE IF KeyError(df, "Success")
             THEN Raise("KeyError")
             ELSE IF astype_boolean_raises(df)
             THEN Raise("TypeError")
             ELSE SelectLatest(now_str, Convert(df))

\* The except clauses without the last one: only EmptyDataError and KeyError
\* are handled, any other exception leaves analyze_results.
ExceptClauses_WithoutCatchAll(exception, now_str) ==
    IF exception \in {"EmptyDataError", "KeyError"}
    THEN [caught |-> exception] @@ CannotDetermine(now_str)
    ELSE [uncaught |-> exception, ret |-> <<>>, frame |-> <<>>]

\* Lines 204-212: except pd.errors.EmptyDataError, except KeyError, except
\* Exception, each returning False, now_str.
ExceptClauses(exception, now_str) ==
    [caught |-> exception] @@ CannotDetermine(now_str)

\* analyze_results with the check of the modification time (lines 99-108)
\* returning instead of warning: a log read at the last instant of the clock
\* counts as stale and is not analysed.
AnalyzeResults_RejectsStaleLog(file, t) ==
    LET now_str == strftime(t)
    IN  IF file.kind \in {"missing", "zero_bytes"} \/ t = MaxTime
        THEN CannotDetermine(now_str)
        ELSE LET tried == TryBlock(file, now_str)
             IN  IF "raised" \in DOMAIN tried
                 THEN ExceptClauses(tried.raised, now_str)
                 ELSE tried

\* The whole of analyze_results(csv_path), called at the instant t with the
\* file in state file: the value it returns and the locals it has bound.
AnalyzeResults(file, t) ==
    LET now_str == strftime(t)
    IN  IF file.kind \in {"missing", "zero_bytes"}
        THEN CannotDetermine(now_str)
        ELSE LET tried == TryBlock(file, now_str)
             IN  IF "raised" \in DOMAIN tried
                 THEN ExceptClauses(tried.raised, now_str)
                 ELSE tried

----------------------------------------------------------------------------
(* The state machine *)

\* The script files __main__ requires: ps_script_path, plotter_script_path,
\* vbs_script_path.
Scripts == {"hulcon.ps1", "NDP.py", "SendEmail2Admin_HTML.vbs"}

\* analyze_results is called on its own, outside a run of __main__.
NoRun == scripts = Scripts /\ graph_file = "absent" /\ main = << >> /\ calls = << >>

\* No earlier invocation on this log.
FirstInvocation == earlier = << >>

\* No call of a plotting function.
NoPlot == call = << >> /\ out = << >>

Init ==
    /\ csv_file \in CsvFiles(MaxRows)
    /\ pc = "start"
    /\ now = NaT
    /\ frame = << >>
    /\ ret = << >>
    /\ caught = "none"
    /\ NoRun /\ FirstInvocation /\ NoPlot

\* analyze_results with the converted frame written back to csv_path: the
\* rows of the log are lost to the rewrite.
analyze_results_RewritesLog(t) ==
    /\ pc = "start"
    /\ now' = t
    /\ \E r \in {AnalyzeResults(csv_file, t)} :
           /\ frame' = r.frame
           /\ ret' = r.ret
           /\ caught' = IF "caught" \in DOMAIN r THEN r.caught ELSE "none"
           /\ pc' = IF "uncaught" \in DOMAIN r THEN "raised" ELSE "done"
    /\ calls' = Append(calls, [fn |-> "analyze_results"])
    /\ csv_file' = [csv_file EXCEPT !.rows = <<>>]
    /\ UNCHANGED <<scripts, graph_file, main, earlier, plotVars>>

\* One call of analyze_results(csv_log_path), at wall-clock instant t.
analyze_results(t) ==
    /\ pc = "start"
    /\ now' = t
    /\ \E r \in {AnalyzeResults(csv_file, t)} :
           /\ frame' = r.frame
           /\ ret' = r.ret
           /\ caught' = IF "caught" \in DOMAIN r THEN r.caught ELSE "none"
           /\ pc' = IF "uncaught" \in DOMAIN r THEN "raised" ELSE "done"
    /\ calls' = Append(calls, [fn |-> "analyze_results"])
    /\ UNCHANGED <<csv_file, scripts, graph_file, main, earlier, plotVars>>

Next == \E t \in Clock : analyze_results(t)

Spec == Init /\ [][Next]_vars

----------------------------------------------------------------------------
(* analyze_results on logs with malformed cells and missing columns *)

\* Success cells of a log: boolean literals, other texts the map of line 127
\* knows or does not know, an empty cell, and numbers.
MalformedSuccessCells == {"True", "False", "", "maybe", "yes", "1", "0", "2"}

\* (CheckType, TargetPort) of the checks of these logs.
MalformedChecks ==
    { <<"Outbound TCP", "22">>,
      <<"Inbound Listen Check", "3389">>,
      <<"Inbound Listen Check", "n/a">> }

\* Rows with well-formed Success cells.
PlainRows ==
    { [Timestamp |-> t, CheckType |-> c[1], TargetPort |-> c[2], Success |-> s] :
        t \in {0, MaxTime}, c \in MalformedChecks, s \in SuccessCells }

\* Rows with any Success cell, and two rows whose Timestamp holds no instant.
MalformedRows ==
    { [Timestamp |-> t, CheckType |-> c[1], TargetPort |-> c[2], Success |-> s] :
        t \in {0, MaxTime}, c \in MalformedChecks, s \in MalformedSuccessCells }
      \cup { [Timestamp |-> Unparseable, CheckType |-> "Outbound TCP",
              TargetPort |-> "22", Success |-> "False"],
             [Timestamp |-> NaT, CheckType |-> "Inbound Listen Check",
              TargetPort |-> "n/a", Success |-> ""] }

\* The columns analyze_results reads.
Columns == {"Timestamp", "CheckType", "TargetPort", "Success"}

\* The rows of a log whose header lacks one column.
WithoutColumn(rows, column) ==
    [ i \in 1 .. Len(rows) |-> [ c \in Columns \ {column} |-> rows[i][c] ] ]

\* Logs of at most n rows with malformed cells, logs that lack a column, and
\* the files without a table.
MalformedFiles(n) ==
    { [kind |-> k, rows |-> <<>>] : k \in {"missing", "zero_bytes", "blank"} }
      \cup { [kind |-> "table", rows |-> r] : r \in SeqUpTo(MalformedRows, n) }
      \cup { [kind |-> "table", rows |-> WithoutColumn(r, c)] :
               r \in SeqUpTo(PlainRows, n) \ {<<>>}, c \in Columns }

InitMalformed ==
    /\ csv_file \in MalformedFiles(MaxRows)
    /\ pc = "start"
    /\ now = NaT
    /\ frame = << >>
    /\ ret = << >>
    /\ caught = "none"
    /\ NoRun /\ FirstInvocation /\ NoPlot

SpecMalformed == InitMalformed /\ [][Next]_vars

----------------------------------------------------------------------------
(* The __main__ block of NMO.py: one run of the orchestrator *)

\* EMAIL_BODY_FAILURE.format(timestamp=timestamp_str): the fixed text and the
\* value put in its place holder.
EMAIL_BODY_FAILURE ==
    "Critical network checks failed (RDP Listen or Outbound).|See attached graph for details.|Timestamp: {timestamp}"

format(template, timestamp) == [template |-> template, timestamp |-> timestamp]

\* An exception raised in a try block leaves the function when no except
\* clause names it and none names Exception, the class of them all.
Escapes(raised, clauses) ==
    raised # "none" /\ raised \notin clauses /\ "Exception" \notin clauses

\* The except clauses of run_powershell_script (69-75), generate_graph
\* (247-252) and send_email_notification (289-297).
PowershellExceptClauses == {"FileNotFoundError", "Exception"}

PlotterExceptClauses == {"FileNotFoundError", "Exception"}

MailerExceptClauses_FileNotFoundOnly == {"FileNotFoundError"}

MailerExceptClauses == {"FileNotFoundError", "TimeoutExpired", "Exception"}

\* What subprocess.run gives run_powershell_script: it raises (no
\* powershell.exe, or another error), or the process ends with a return code
\* and the phrases of interest on stderr.
StderrPhrases ==
    {"FATAL: Failed to write results to CSV", "Access to the path", "is denied"}

PowershellOutcomes ==
    { [raised |-> e] : e \in {"FileNotFoundError", "OSError"} }
      \cup { [raised |-> "none", returncode |-> c, stderr |-> s] :
               c \in {0, 1}, s \in SUBSET StderrPhrases }

\* run_powershell_script with the stderr test read as (A or B) and C.
run_powershell_script_OrBeforeAnd(outcome) ==
    IF outcome.raised # "none" THEN FALSE
    ELSE LET nonzero == outcome.returncode # 0
             csv_write_failed ==
                 /\ \/ "FATAL: Failed to write results to CSV" \in outcome.stderr
                    \/ "Access to the path" \in outcome.stderr
                 /\ "is denied" \in outcome.stderr
         IN  ~nonzero /\ ~csv_write_failed

\* run_powershell_script(script_path), lines 34-75.
run_powershell_script(outcome) ==
    IF outcome.raised # "none"
    THEN FALSE
    ELSE LET nonzero == outcome.returncode # 0
             csv_write_failed ==
                 \/ "FATAL: Failed to write results to CSV" \in outcome.stderr
                 \/ /\ "Access to the path" \in outcome.stderr
                    /\ "is denied" \in outcome.stderr
         IN  ~nonzero /\ ~csv_write_failed

\* Rows the log holds before the run, and rows the collector of this run
\* writes (stamped with the time of the run).
OldRows ==
    { [Timestamp |-> 0, CheckType |-> "Outbound TCP", TargetPort |-> "22",
       Success |-> "True"],
      [Timestamp |-> 0, CheckType |-> "Outbound TCP", TargetPort |-> "22",
       Success |-> "False"],
      [Timestamp |-> Unparseable, CheckType |-> "Inbound Listen Check",
       TargetPort |-> "3389", Success |-> "False"] }

NewRows ==
    { [Timestamp |-> MaxTime, CheckType |-> "Inbound Listen Check",
       TargetPort |-> "3389", Success |-> s] : s \in SuccessCells }

MainFiles(n) ==
    { [kind |-> k, rows |-> <<>>] : k \in {"missing", "zero_bytes"} }
      \cup { [kind |-> "table", rows |-> r] : r \in SeqUpTo(OldRows, n) }

\* The log after the collector process: a process that did not start leaves
\* it as it is; one that ran has appended a row, or has failed to write.
CollectorWrites(file, outcome) ==
    IF outcome.raised # "none" \/ Len(file.rows) >= MaxRows
    THEN {file}
    ELSE {file} \cup { [kind |-> "table", rows |-> Append(file.rows, r)] : r \in NewRows }

\* What subprocess.run gives generate_graph, and what the plotter wrote at
\* output_path.
PlotterOutcomes ==
    { [raised |-> e] : e \in {"FileNotFoundError", "OSError"} }
      \cup { [raised |-> "none", returncode |-> c, wrote |-> w] :
               c \in {0, 1}, w \in {"nothing", "empty", "graph"} }

\* The file at output_path after the plotter process.
GraphFileAfter(file, outcome) ==
    IF outcome.raised # "none" THEN file
    ELSE CASE outcome.wrote = "nothing" -> file
           [] outcome.wrote = "empty" -> "empty"
           [] outcome.wrote = "graph" -> "fresh"

\* generate_graph with a non-zero exit code of the plotter taken for a failure.
generate_graph_FailsOnNonZeroExit(plotter_exists, outcome, file_after) ==
    IF ~plotter_exists THEN FALSE
    ELSE IF outcome.raised # "none" THEN FALSE
    ELSE outcome.returncode = 0 /\ file_after \in {"stale", "fresh"}

\* generate_graph(plotter_script, csv_log, output_path, days_to_display),
\* lines 214-252; file_after is the file found at output_path at line 240.
generate_graph(plotter_exists, outcome, file_after) ==
    IF ~plotter_exists THEN FALSE
    ELSE IF outcome.raised # "none" THEN FALSE
    ELSE file_after \in {"stale", "fresh"}

\* What subprocess.run gives send_email_notification.
MailerOutcomes ==
    { [raised |-> e] : e \in {"FileNotFoundError", "TimeoutExpired", "OSError"} }
      \cup { [raised |-> "none", returncode |-> c, stdout_has_SUCCESS |-> s] :
               c \in {0, 1}, s \in BOOLEAN }

\* send_email_notification with the return code alone as the test of success.
send_email_notification_ExitCodeOnly(attachment_exists, vbs_exists, outcome) ==
    IF ~attachment_exists THEN FALSE
    ELSE IF ~vbs_exists THEN FALSE
    ELSE IF outcome.raised # "none" THEN FALSE
    ELSE outcome.returncode = 0

\* send_email_notification(vbs_script, subject, body, attachment_path),
\* lines 255-297.
send_email_notification(attachment_exists, vbs_exists, outcome) ==
    IF ~attachment_exists THEN FALSE
    ELSE IF ~vbs_exists THEN FALSE
    ELSE IF outcome.raised # "none" THEN FALSE
    ELSE outcome.returncode = 0 /\ outcome.stdout_has_SUCCESS

\* The files that lines 307-309 check, in their order: ps_script_path,
\* plotter_script_path, vbs_script_path.
RequiredScripts == <<"hulcon.ps1", "NDP.py", "SendEmail2Admin_HTML.vbs">>

\* check_file_exists(filepath, description), lines 27-32: the call, with
\* what it returned and whether it printed its CRITICAL ERROR.
check_file_exists(filepath, present) ==
    [fn |-> "check_file_exists", filepath |-> filepath,
     returned |-> filepath \in present, reported |-> filepath \notin present]

\* The initial checks as a chain that stops at the first missing file.
InitialChecks_StopAtFirstMissing(present) ==
    LET missing == { k \in DOMAIN RequiredScripts : RequiredScripts[k] \notin present }
        last == IF missing = {} THEN Len(RequiredScripts)
                ELSE CHOOSE k \in missing : \A j \in missing : k <= j
    IN  [ k \in 1 .. last |-> check_file_exists(RequiredScripts[k], present) ]

\* Lines 307-309: three separate if statements, each calls check_file_exists.
InitialChecks(present) ==
    [ k \in DOMAIN RequiredScripts |-> check_file_exists(RequiredScripts[k], present) ]

\* Lines 305-313: the three check_file_exists, then sys.exit(1) or go on.
main_checks ==
    /\ pc = "checks"
    /\ LET checks == InitialChecks(scripts)
           abort == \E k \in DOMAIN checks : ~checks[k].returned
       IN  /\ calls' = calls \o checks
           /\ IF abort
              THEN /\ main' = [abort |-> TRUE, exit_status |-> 1] @@ main
                   /\ pc' = "exited"
              ELSE /\ main' = [abort |-> FALSE] @@ main
                   /\ pc' = "collector"
    /\ UNCHANGED <<csv_file, now, frame, ret, caught, scripts, graph_file, earlier, plotVars>>

\* Step 1 with a failed collector ending the run.
main_collect_FailureEndsRun ==
    /\ pc = "collector"
    /\ \E outcome \in PowershellOutcomes :
          /\ csv_file' \in CollectorWrites(csv_file, outcome)
          /\ IF Escapes(outcome.raised, PowershellExceptClauses)
             THEN pc' = "raised" /\ UNCHANGED main
             ELSE /\ pc' = IF run_powershell_script(outcome) THEN "start" ELSE "exited"
                  /\ main' = [ps_success |-> run_powershell_script(outcome)] @@ main
    /\ calls' = Append(calls, [fn |-> "run_powershell_script"])
    /\ UNCHANGED <<now, frame, ret, caught, scripts, graph_file, earlier, plotVars>>

\* Lines 316-319: step 1, the collector.
main_collect ==
    /\ pc = "collector"
    /\ \E outcome \in PowershellOutcomes :
          /\ csv_file' \in CollectorWrites(csv_file, outcome)
          /\ IF Escapes(outcome.raised, PowershellExceptClauses)
             THEN pc' = "raised" /\ UNCHANGED main
             ELSE /\ pc' = "start"
                  /\ main' = [ps_success |-> run_powershell_script(outcome)] @@ main
    /\ calls' = Append(calls, [fn |-> "run_powershell_script"])
    /\ UNCHANGED <<now, frame, ret, caught, scripts, graph_file, earlier, plotVars>>

\* Lines 325-330: step 3, the graph, attempted only if the log exists.
main_graph ==
    /\ pc = "done"
    /\ IF csv_file.kind = "missing"
       THEN /\ main' = [graph_generated |-> FALSE] @@ main
            /\ pc' = "email"
            /\ UNCHANGED <<graph_file, calls>>
       ELSE \E outcome \in PlotterOutcomes :
               LET plotter_exists == "NDP.py" \in scripts
                   file_after == IF plotter_exists
                                 THEN GraphFileAfter(graph_file, outcome)
                                 ELSE graph_file
               IN  /\ graph_file' = file_after
                   /\ calls' = Append(calls, [fn |-> "generate_graph"])
                   /\ IF plotter_exists /\ Escapes(outcome.raised, PlotterExceptClauses)
                      THEN pc' = "raised" /\ UNCHANGED main
                      ELSE /\ pc' = "email"
                           /\ main' = [graph_generated |->
                                          generate_graph(plotter_exists, outcome, file_after)]
                                      @@ main
    /\ UNCHANGED <<csv_file, now, frame, ret, caught, scripts, earlier, plotVars>>

\* Lines 333-352: step 4, the email, and the end of the run.
main_email ==
    /\ pc = "email"
    /\ LET send_alert_based_on_criteria == ret[1]
           timestamp_str == ret[2]
       IN  IF send_alert_based_on_criteria /\ main.graph_generated
           THEN \E outcome \in MailerOutcomes :
                   LET email_body == format(EMAIL_BODY_FAILURE, timestamp_str)
                       attachment_exists == graph_file # "absent"
                       vbs_exists == "SendEmail2Admin_HTML.vbs" \in scripts
                   IN  /\ calls' = Append(calls, [fn |-> "send_email_notification",
                                                  body |-> email_body,
                                                  attachment |-> graph_file])
                       /\ IF /\ attachment_exists /\ vbs_exists
                             /\ Escapes(outcome.raised, MailerExceptClauses)
                          THEN /\ pc' = "raised"
                               /\ main' = [email_body |-> email_body] @@ main
                          ELSE /\ pc' = "finished"
                               /\ main' = [email_body |-> email_body,
                                           email_success |->
                                               send_email_notification(attachment_exists,
                                                   vbs_exists, outcome)] @@ main
           ELSE /\ pc' = "finished"
                /\ UNCHANGED <<main, calls>>
    /\ UNCHANGED <<csv_file, now, frame, ret, caught, scripts, graph_file, earlier, plotVars>>

InitMain ==
    /\ csv_file \in MainFiles(MaxRows)
    /\ pc = "checks"
    /\ now = NaT
    /\ frame = << >>
    /\ ret = << >>
    /\ caught = "none"
    /\ scripts \in SUBSET Scripts
    /\ graph_file \in {"absent", "empty", "stale"}
    /\ main = << >>
    /\ calls = << >>
    /\ FirstInvocation /\ NoPlot

NextMain ==
    \/ main_checks
    \/ main_collect
    \/ \E t \in Clock : analyze_results(t)
    \/ main_graph
    \/ main_email

SpecMain == InitMain /\ [][NextMain]_vars

\* The steps of __main__ run one after the other, each to its end (every
\* subprocess is taken to end).
SpecMainFair == SpecMain /\ WF_vars(NextMain)

----------------------------------------------------------------------------
(* analyze_results invoked again on the same log *)

\* The number of invocations on one log.
MaxCalls == 2

RepeatFiles(n) ==
    { [kind |-> k, rows |-> <<>>] : k \in {"missing", "zero_bytes"} }
      \cup { [kind |-> "table", rows |-> r] : r \in SeqUpTo(OldRows \cup NewRows, n) }

\* The instant of the last earlier invocation.
LastInvocation == IF earlier = << >> THEN 0 ELSE earlier[Len(earlier)].now

\* A later run of the script: analyze_results is about to be called again on
\* the log as it is, with fresh locals; what the last call returned, and when,
\* is kept for comparison.
invoke_again ==
    /\ pc = "done"
    /\ Len(earlier) < MaxCalls - 1
    /\ earlier' = Append(earlier, [ret |-> ret, now |-> now])
    /\ pc' = "start"
    /\ now' = NaT
    /\ frame' = << >>
    /\ ret' = << >>
    /\ caught' = "none"
    /\ calls' = << >>
    /\ UNCHANGED <<csv_file, scripts, graph_file, main, plotVars>>

InitRepeat ==
    /\ csv_file \in RepeatFiles(MaxRows)
    /\ pc = "start"
    /\ now = NaT
    /\ frame = << >>
    /\ ret = << >>
    /\ caught = "none"
    /\ NoRun /\ FirstInvocation /\ NoPlot

NextRepeat ==
    \/ \E t \in Clock : t >= LastInvocation /\ analyze_results(t)
    \/ invoke_again

SpecRepeat == InitRepeat /\ [][NextRepeat]_vars

----------------------------------------------------------------------------
(* NDP.py: the time window of plot_network_diagnostics *)

\* The largest number of days asked for.
MaxDays == 2

\* timedelta(days=1), in ticks.
TicksPerDay == 86400 * TicksPerSecond

\* The instants datetime.now() gives the plotter.
PlotClock == { (MaxDays + 1) * TicksPerDay, (MaxDays + 1) * TicksPerDay + 1 }

\* Timestamp cells of the log: instants one tick before, at and one tick
\* after a whole number of days before the first instant of the clock, an
\* empty cell, and a text that does not parse.
PlotTimestampCells ==
    { (MaxDays + 1) * TicksPerDay - d * TicksPerDay + o : d \in 1 .. MaxDays, o \in {-1, 0, 1} }
      \cup {NaT, Unparseable}

\* The values given for days_to_display, each with its Python type (a float
\* or a string is written by the integer it shows; None by 0).
DaysArguments ==
    { [type |-> "NoneType", value |-> 0] }
      \cup { [type |-> "int", value |-> n] : n \in -1 .. MaxDays }
      \cup { [type |-> "float", value |-> MaxDays],
             [type |-> "str", value |-> MaxDays],
             [type |-> "bool", value |-> 1] }

\* isinstance(x, int): bool is a subclass of int.
isinstance_int(x) == x.type \in {"int", "bool"}

\* df[df['Timestamp'] > cutoff_date]: a row at the cutoff itself is dropped.
Window_StrictlyAfterCutoff(df, days_to_display, t) ==
    IF /\ days_to_display.type # "NoneType"
       /\ isinstance_int(days_to_display)
       /\ days_to_display.value > 0
    THEN LET cutoff_date == t - days_to_display.value * TicksPerDay
         IN  SelectSeq(df, LAMBDA row : row.Timestamp # NaT /\ row.Timestamp > cutoff_date)
    ELSE df

\* Lines 55-66 of NDP.py: the frame kept for plotting. A comparison with NaT
\* is False.
Window(df, days_to_display, t) ==
    IF /\ days_to_display.type # "NoneType"
       /\ isinstance_int(days_to_display)
       /\ days_to_display.value > 0
    THEN LET cutoff_date == t - days_to_display.value * TicksPerDay
         IN  SelectSeq(df, LAMBDA row : row.Timestamp # NaT /\ row.Timestamp >= cutoff_date)
    ELSE df

\* Lines 24-66 of NDP.py: plot_network_diagnostics up to the frame it goes on
\* to plot; stopped when it returned False before.
PlotFrame(rows, days_to_display, t) ==
    LET df == [ i \in 1 .. Len(rows) |-> [Index |-> i, Timestamp |-> rows[i].Timestamp] ]
    IN  IF to_datetime_raises(df)
        THEN [stopped |-> TRUE, df |-> <<>>]
        ELSE [stopped |-> FALSE,
              df |-> Window([ i \in 1 .. Len(df) |->
                                [df[i] EXCEPT !.Timestamp = to_datetime(df[i].Timestamp)] ],
                            days_to_display, t)]

InitPlot ==
    /\ csv_file \in { [kind |-> "table", rows |-> r] :
                        r \in SeqUpTo({ [Timestamp |-> c] : c \in PlotTimestampCells }, MaxRows) }
    /\ call \in { [days_to_display |-> d] : d \in DaysArguments }
    /\ out = << >>
    /\ pc = "plot"
    /\ now = NaT
    /\ frame = << >>
    /\ ret = << >>
    /\ caught = "none"
    /\ NoRun /\ FirstInvocation

\* One call of plot_network_diagnostics(csv_path, output_file, days_to_display)
\* at the instant t.
plot_network_diagnostics(t) ==
    /\ pc = "plot"
    /\ now' = t
    /\ out' = PlotFrame(csv_file.rows, call.days_to_display, t)
    /\ pc' = "plotted"
    /\ UNCHANGED <<csv_file, frame, ret, caught, mainVars, earlier, call>>

NextPlot == \E t \in PlotClock : plot_network_diagnostics(t)

SpecPlot == InitPlot /\ [][NextPlot]_vars

----------------------------------------------------------------------------
(* heatmap_insights.py: ServiceInsightsEngine._filter_for_specific_month *)

\* The last instant of a day the clock can show (23:59:59.999999), in ticks
\* after midnight.
EndOfDay == TicksPerDay - 1

\* datetime(year, month, day, ...): <<year, month, day, ticks after midnight>>.
datetime(year, month, day, time) == <<year, month, day, time>>

\* datetime(year, ...) raises ValueError outside MINYEAR .. MAXYEAR.
datetime_raises(year) == year \notin 1 .. 9999

\* a <= b for two datetimes.
NotAfter(a, b) ==
    \/ a[1] < b[1]
    \/ a[1] = b[1] /\ a[2] < b[2]
    \/ a[1] = b[1] /\ a[2] = b[2] /\ a[3] < b[3]
    \/ a[1] = b[1] /\ a[2] = b[2] /\ a[3] = b[3] /\ a[4] <= b[4]

\* calendar.isleap
isleap(year) == (year % 4 = 0 /\ year % 100 # 0) \/ year % 400 = 0

\* The days of the month, with February taken for 28 days in every year.
monthrange_WithoutLeapYears(year, month) ==
    CASE month \in {4, 6, 9, 11} -> 30
      [] month = 2 -> 28
      [] OTHER -> 31

\* calendar.monthrange(year, month)[1]: the number of days of the month.
monthrange(year, month) ==
    CASE month \in {4, 6, 9, 11} -> 30
      [] month = 2 -> IF isleap(year) THEN 29 ELSE 28
      [] OTHER -> 31

\* The years of the records, one of them a leap year.
Years == {2023, 2024}

\* Timestamps of the loaded records: the first and last instants of days
\* around the ends of January, February and December.
Stamps ==
    { datetime(y, 1, 31, EndOfDay) : y \in Years }
      \cup { datetime(y, 2, 1, 0) : y \in Years }
      \cup { datetime(y, 2, 28, EndOfDay) : y \in Years }
      \cup { datetime(y, 2, 29, t) : y \in { x \in Years : isleap(x) }, t \in {0, EndOfDay} }
      \cup { datetime(y, 3, 1, 0) : y \in Years }
      \cup { datetime(y, 12, 31, EndOfDay) : y \in Years }

\* self.df: None, or the frame _load_and_preprocess_data returned, which is
\* not empty and is sorted by timestamp (line 109).
LoadedFrames(n) ==
    { [loaded |-> FALSE, rows |-> <<>>] }
      \cup { [loaded |-> TRUE, rows |-> r] :
               r \in { s \in SeqUpTo(Stamps, n) :
                         /\ s # <<>>
                         /\ \A k \in 1 .. Len(s) - 1 : NotAfter(s[k], s[k + 1]) } }

\* The arguments given for year and month.
YearArguments == {0} \cup Years

MonthArguments == {0, 1, 2, 3, 12, 13}

\* Lines 160-193: what _filter_for_specific_month returns, None or a frame.
FilterForSpecificMonth(df, year, month) ==
    LET None == [none |-> TRUE, df |-> <<>>]
    IN  IF ~df.loaded THEN None
        ELSE IF ~(1 <= month /\ month <= 12) THEN None
        ELSE IF datetime_raises(year) THEN None
        ELSE LET start_of_month == datetime(year, month, 1, 0)
                 days_in_month == monthrange(year, month)
                 end_of_month == datetime(year, month, days_in_month, EndOfDay)
                 month_df == SelectSeq(
                     [ i \in 1 .. Len(df.rows) |-> [Index |-> i, timestamp |-> df.rows[i]] ],
                     LAMBDA row : /\ NotAfter(start_of_month, row.timestamp)
                                  /\ NotAfter(row.timestamp, end_of_month))
             IN  IF month_df = <<>> THEN None
                 ELSE [none |-> FALSE, df |-> month_df]

InitMonth ==
    /\ call \in { [df |-> f, year |-> y, month |-> m] :
                    f \in LoadedFrames(MaxRows), y \in YearArguments, m \in MonthArguments }
    /\ out = << >>
    /\ pc = "filter"
    /\ csv_file = [kind |-> "missing", rows |-> <<>>]
    /\ now = NaT
    /\ frame = << >>
    /\ ret = << >>
    /\ caught = "none"
    /\ NoRun /\ FirstInvocation

\* One call of self._filter_for_specific_month(year, month).
filter_for_specific_month ==
    /\ pc = "filter"
    /\ out' = FilterForSpecificMonth(call.df, call.year, call.month)
    /\ pc' = "filtered"
    /\ UNCHANGED <<csv_file, now, frame, ret, caught, mainVars, earlier, call>>

NextMonth == filter_for_specific_month

SpecMonth == InitMonth /\ [][NextMonth]_vars

----------------------------------------------------------------------------
(* NMO.py: run_powershell_script, generate_graph and                       *)
(* send_email_notification, each called on its own                         *)

\* The files at graph_output_path a call can find: none, an empty one, a
\* graph left by an earlier run.
GraphFiles == {"absent", "empty", "stale"}

\* os.path.exists(path) for the file at graph_output_path.
exists(file) == file # "absent"

\* The calls: the function and what subprocess.run gives it when it gets
\* that far.
WrapperCalls ==
    { [fn |-> "run_powershell_script", outcome |-> o] : o \in PowershellOutcomes }
      \cup { [fn |-> "generate_graph", outcome |-> o] : o \in PlotterOutcomes }
      \cup { [fn |-> "send_email_notification", outcome |-> o] : o \in MailerOutcomes }

InitWrappers ==
    /\ call \in WrapperCalls
    /\ scripts \in SUBSET Scripts
    /\ graph_file \in GraphFiles
    /\ out = << >>
    /\ pc = "call"
    /\ csv_file = [kind |-> "missing", rows |-> <<>>]
    /\ now = NaT
    /\ frame = << >>
    /\ ret = << >>
    /\ caught = "none"
    /\ main = << >>
    /\ calls = << >>
    /\ FirstInvocation

\* run_powershell_script(ps_script_path): the script file is not looked at,
\* powershell.exe is started in every call.
call_run_powershell_script ==
    /\ pc = "call" /\ call.fn = "run_powershell_script"
    /\ out' = [returned |-> run_powershell_script(call.outcome), started |-> TRUE]
    /\ pc' = "returned"
    /\ UNCHANGED <<csv_file, now, frame, ret, caught, mainVars, earlier, call>>

\* generate_graph(plotter_script_path, csv_log_path, graph_output_path, 3):
\* the plotter is started when its script exists (lines 219-221).
call_generate_graph ==
    /\ pc = "call" /\ call.fn = "generate_graph"
    /\ LET plotter_exists == "NDP.py" \in scripts
           file_after == IF plotter_exists
                         THEN GraphFileAfter(graph_file, call.outcome)
                         ELSE graph_file
       IN  /\ out' = [returned |-> generate_graph(plotter_exists, call.outcome, file_after),
                      started |-> plotter_exists]
           /\ graph_file' = file_after
    /\ pc' = "returned"
    /\ UNCHANGED <<csv_file, now, frame, ret, caught, scripts, main, calls, earlier, call>>

\* send_email_notification(vbs_script_path, subject, body, graph_output_path):
\* cscript.exe is started when the attachment and the VBScript exist (lines
\* 259-267).
call_send_email_notification ==
    /\ pc = "call" /\ call.fn = "send_email_notification"
    /\ LET attachment_exists == exists(graph_file)
           vbs_exists == "SendEmail2Admin_HTML.vbs" \in scripts
       IN  out' = [returned |-> send_email_notification(attachment_exists, vbs_exists,
                                                        call.outcome),
                   started |-> attachment_exists /\ vbs_exists]
    /\ pc' = "returned"
    /\ UNCHANGED <<csv_file, now, frame, ret, caught, mainVars, earlier, call>>

NextWrappers ==
    \/ call_run_powershell_script
    \/ call_generate_graph
    \/ call_send_email_notification

SpecWrappers == InitWrappers /\ [][NextWrappers]_vars

----------------------------------------------------------------------------
(* heatmap_insights.py: the month prompt of the __main__ block *)

\* The largest number of lines standard input holds before it is closed.
MaxEntries == 2

\* selected_month = None
None == -1

\* The decimal digits, each at the place of its value plus one.
Digits == <<"0", "1", "2", "3", "4", "5", "6", "7", "8", "9">>

IsDigit(c) == \E d \in DOMAIN Digits : Digits[d] = c

DigitValue(c) == (CHOOSE d \in DOMAIN Digits : Digits[d] = c) - 1

\* text.strip(), for blanks: int() ignores leading and trailing whitespace.
strip(text) ==
    LET inked == { i \in 1 .. Len(text) : text[i] # " " }
    IN  IF inked = {} THEN << >>
        ELSE SubSeq(text, CHOOSE i \in inked : \A j \in inked : i <= j,
                          CHOOSE i \in inked : \A j \in inked : j <= i)

\* The digits of a literal, after the blanks and an optional sign.
Unsigned(text) ==
    LET t == strip(text)
    IN  IF t # << >> /\ t[1] \in {"+", "-"} THEN Tail(t) ELSE t

\* int(text) raises ValueError unless text is blanks, an optional sign and
\* one or more digits, blanks.
int_raises(text) ==
    \/ Unsigned(text) = << >>
    \/ \E i \in 1 .. Len(Unsigned(text)) : ~IsDigit(Unsigned(text)[i])

RECURSIVE Decimal(_)
Decimal(digits) ==
    IF digits = << >> THEN 0
    ELSE 10 * Decimal(SubSeq(digits, 1, Len(digits) - 1)) + DigitValue(digits[Len(digits)])

\* int(text), the text being one that int accepts.
int(text) ==
    IF strip(text)[1] = "-" THEN 0 - Decimal(Unsigned(text)) ELSE Decimal(Unsigned(text))

\* The range test with 0 taken for a month.
ValidMonth_FromZero(month_int) == 0 <= month_int /\ month_int <= 12

\* 1 <= month_int <= 12
ValidMonth(month_int) == 1 <= month_int /\ month_int <= 12

\* Lines a user types at the prompt, each a sequence of characters: nothing,
\* a word, months, numbers next to the range, and numerals written with
\* blanks, a sign, a leading zero, a decimal point.
MonthEntries ==
    { << >>, <<"x">>, <<"0">>, <<"1">>, <<"1", "2">>, <<"1", "3">>,
      <<" ", "7">>, <<"+", "3">>, <<"-", "1">>, <<"0", "5">>,
      <<"1", ".", "0">>, <<"1", " ", "2">> }

\* Standard input: the lines it holds, then end of file.
InitPrompt ==
    /\ call \in { [stdin |-> s] : s \in SeqUpTo(MonthEntries, MaxEntries) }
    /\ out = [selected_month |-> None, printed |-> << >>]
    /\ pc = "prompt"
    /\ csv_file = [kind |-> "missing", rows |-> <<>>]
    /\ now = NaT
    /\ frame = << >>
    /\ ret = << >>
    /\ caught = "none"
    /\ NoRun /\ FirstInvocation

\* One pass of the loop of lines 284-296: input() gives the next line or
\* raises EOFError; the line is converted and tested.
month_prompt ==
    /\ pc = "prompt" /\ out.selected_month = None
    /\ IF call.stdin = << >>
       THEN /\ pc' = "exited"
            /\ out' = [exit_status |-> 1] @@ out
            /\ UNCHANGED call
       ELSE LET month_input == Head(call.stdin)
            IN  /\ call' = [call EXCEPT !.stdin = Tail(call.stdin)]
                /\ IF int_raises(month_input)
                   THEN /\ out' = [out EXCEPT !.printed =
                                      Append(@, "Invalid input. Please enter a number.")]
                        /\ pc' = "prompt"
                   ELSE IF ValidMonth(int(month_input))
                   THEN /\ out' = [out EXCEPT !.selected_month = int(month_input)]
                        /\ pc' = "selected"
                   ELSE /\ out' = [out EXCEPT !.printed =
                                      Append(@, "Invalid input. Please enter a number between 1 and 12.")]
                        /\ pc' = "prompt"
    /\ UNCHANGED <<csv_file, now, frame, ret, caught, mainVars, earlier>>

NextPrompt == month_prompt

SpecPrompt == InitPrompt /\ [][NextPrompt]_vars

\* input() returns when a line or the end of the stream arrives; on a stream
\* that holds its lines and is then closed every pass of the loop completes.
SpecPromptFair == SpecPrompt /\ WF_vars(NextPrompt)

----------------------------------------------------------------------------
(* The notions the properties are stated with, read off the rows of the    *)
(* file and not off the locals of analyze_results.                         *)

Rows == csv_file.rows

returned == pc = "done"

alert == ret[1]

\* The rows whose Timestamp cell holds an instant.
Parsed == { i \in 1 .. Len(Rows) : Rows[i].Timestamp \in Times }

\* The latest batch: the parsed rows that carry the largest parsed instant.
LatestBatch ==
    { i \in Parsed : \A j \in Parsed : Rows[j].Timestamp <= Rows[i].Timestamp }

Fails(i) == Rows[i].Success # "True"

InboundOn3389(i) ==
    Rows[i].CheckType = "Inbound Listen Check" /\ Rows[i].TargetPort = "3389"

Outbound(i) == Rows[i].CheckType \in {"Outbound TCP", "Outbound ICMP"}

Critical(i) == InboundOn3389(i) \/ Outbound(i)

\* The index labels of the rows of a frame.
Labels(sub) == { sub[k].Index : k \in 1 .. Len(sub) }

Bound(name) == name \in DOMAIN frame

----------------------------------------------------------------------------
\* C1: for a non-empty table whose timestamps all parse, the batch that
\* analyze_results evaluates holds exactly the rows whose timestamp equals the
\* maximum timestamp of the table, each once; equality is of the instants, not
\* of the seconds they show.
C1_BatchIsRowsAtMaxTimestamp ==
    (returned /\ csv_file.kind = "table" /\ Rows # <<>> /\ Parsed = 1 .. Len(Rows))
        => /\ Bound("latest_results")
           /\ Labels(frame.latest_results) = LatestBatch
           /\ Len(frame.latest_results) = Cardinality(LatestBatch)

\* C1, its case: two rows within one second, half a second apart; the batch
\* is the later one alone.
C1_Witness ==
    /\ returned /\ csv_file.kind = "table" /\ Len(Rows) = 2
    /\ Rows[1].Timestamp = 1 /\ Rows[2].Timestamp = 0
    /\ Labels(frame.latest_results) = {1}

\* C2: alert = true only if the latest batch holds a failing record that is an
\* Inbound Listen Check on port 3389 or an Outbound TCP / Outbound ICMP check.
C2_AlertOnlyFromCriticalFailure ==
    (returned /\ alert) => \E i \in LatestBatch : Fails(i) /\ Critical(i)

\* C2, its case: an alert, raised by a batch that holds a critical failure next
\* to a failed Inbound Listen Check on port 22.
C2_Witness ==
    /\ returned /\ alert
    /\ \E i \in LatestBatch :
          Fails(i) /\ Rows[i].CheckType = "Inbound Listen Check" /\ Rows[i].TargetPort = "22"
    /\ \E i \in LatestBatch : Fails(i) /\ Critical(i)

\* C2, the other way round: a latest batch whose only failure is an Inbound
\* Listen Check on port 22 raises no alert, whatever failed before it.
C2_NonCriticalOnlyCase ==
    /\ returned /\ ~alert
    /\ \E i \in LatestBatch :
          Fails(i) /\ Rows[i].CheckType = "Inbound Listen Check" /\ Rows[i].TargetPort = "22"
    /\ \E i \in 1 .. Len(Rows) : i \notin LatestBatch /\ Fails(i) /\ Critical(i)

\* C3: a failed Inbound Listen Check on port 3389 in the latest batch gives
\* alert = true and is listed in critical_failures, whatever else the table holds.
C3_InboundRdpFailureAlerts ==
    returned =>
        \A i \in LatestBatch :
            (Fails(i) /\ InboundOn3389(i))
                => /\ alert
                   /\ Bound("critical_failures")
                   /\ i \in Labels(frame.critical_failures)

\* C3 holds of every table whose Timestamp column converts: it fails only
\* where a cell of the column does not parse (C9).
C3_WhenTimestampsConvert ==
    (\A i \in 1 .. Len(Rows) : Rows[i].Timestamp # Unparseable)
        => C3_InboundRdpFailureAlerts

\* C4: a failed Outbound TCP or Outbound ICMP check in the latest batch gives
\* alert = true, whatever its TargetPort cell holds.
C4_OutboundFailureAlerts ==
    returned => \A i \in LatestBatch : (Fails(i) /\ Outbound(i)) => alert

\* C4 holds of every table whose Timestamp column converts (see C9).
C4_WhenTimestampsConvert ==
    (\A i \in 1 .. Len(Rows) : Rows[i].Timestamp # Unparseable)
        => C4_OutboundFailureAlerts

\* C5: if every record of the latest batch succeeded, alert is false.
C5_AllSuccessNoAlert ==
    (returned /\ \A i \in LatestBatch : ~Fails(i)) => ~alert

\* C5, its case: a latest batch of successful outbound and inbound-3389 checks,
\* after an older critical failure.
C5_Witness ==
    /\ returned /\ ~alert /\ LatestBatch # {}
    /\ \A i \in LatestBatch : ~Fails(i) /\ Critical(i)
    /\ \E i \in Parsed : i \notin LatestBatch /\ Fails(i) /\ Critical(i)

\* The table cut down to its latest batch.
LatestBatchOnly ==
    [kind |-> "table",
     rows |-> SelectSeq(Rows, LAMBDA r :
                 /\ r.Timestamp \in Times
                 /\ \A j \in Parsed : Rows[j].Timestamp <= r.Timestamp)]

\* C6: the decision depends on the latest batch alone: the table and the table
\* cut down to its rows at the maximum timestamp give the same alert.
C6_DecisionFromLatestBatchOnly ==
    (returned /\ LatestBatch # {})
        => alert = AnalyzeResults(LatestBatchOnly, now).ret[1]

\* C6 holds of every table whose Timestamp column converts (see C9).
C6_WhenTimestampsConvert ==
    (\A i \in 1 .. Len(Rows) : Rows[i].Timestamp # Unparseable)
        => C6_DecisionFromLatestBatchOnly

\* The failures of the latest batch, and those of them that are critical.
BatchFailures == { i \in LatestBatch : Fails(i) }

BatchCritical == { i \in BatchFailures : Critical(i) }

\* C7 as stated: whenever the latest batch has failures, both lists are
\* computed and returned with alert and the timestamp, critical_failures holds
\* the failures matching the rule and non_critical_failures the other ones.
C7_BothListsReturned ==
    (returned /\ Bound("all_failures") /\ frame.all_failures # <<>>)
        => /\ Len(ret) = 4
           /\ Bound("critical_failures") /\ Bound("non_critical_failures")
           /\ Labels(frame.critical_failures) = BatchCritical
           /\ Labels(frame.non_critical_failures) = BatchFailures \ BatchCritical

\* C7 amended: analyze_results returns the pair (alert, timestamp string)
\* alone and computes at most one of the two lists: whenever it returns
\* alert = true, critical_failures holds exactly the failures of the latest
\* batch that match the inbound-3389 or outbound rule, each once, and
\* non_critical_failures is not computed; whenever it returns alert = false
\* after finding failures in the batch, non_critical_failures holds exactly
\* the failures of the latest batch, each once, and none of them matches the rule.
C7_OneListPerOutcome ==
    returned
        => /\ Len(ret) = 2
           /\ ~(Bound("critical_failures") /\ Bound("non_critical_failures"))
           /\ alert =>
                /\ Bound("critical_failures")
                /\ Labels(frame.critical_failures) = BatchCritical
                /\ Len(frame.critical_failures) = Cardinality(BatchCritical)
           /\ (~alert /\ Bound("all_failures") /\ frame.all_failures # <<>>) =>
                /\ Bound("non_critical_failures")
                /\ Labels(frame.non_critical_failures) = BatchFailures
                /\ Len(frame.non_critical_failures) = Cardinality(BatchFailures)
                /\ BatchCritical = {}

\* C7, its case: a batch of two failed Inbound Listen Checks, on port 3389 and
\* on another port: critical_failures holds the first alone.
C7_Witness ==
    /\ returned /\ alert /\ Len(Rows) = 2 /\ LatestBatch = {1, 2}
    /\ Fails(1) /\ InboundOn3389(1)
    /\ Fails(2) /\ Rows[2].CheckType = "Inbound Listen Check" /\ Rows[2].TargetPort = "22"
    /\ Len(frame.critical_failures) = 1

\* The string strftime('%Y-%m-%d %H:%M:%S') gives for an instant: its second.
Shown(t) == t \div TicksPerSecond

\* C8: for an empty input (no file, a file of zero bytes, a file without a
\* header, a header and no rows) analyze_results returns alert = false and the
\* wall-clock time of the call, and lists no failure.
C8_EmptyInputNoAlert ==
    (returned /\ (csv_file.kind # "table" \/ Rows = <<>>))
        => /\ ret = <<FALSE, Shown(now)>>
           /\ ~Bound("critical_failures") /\ ~Bound("non_critical_failures")

\* C8, its case: a file with a header and no rows, read at the latest instant.
C8_Witness ==
    returned /\ csv_file.kind = "table" /\ Rows = <<>> /\ now = MaxTime /\ ~alert

\* The table without the rows whose timestamp is missing or does not parse.
ParsedRowsOnly ==
    [kind |-> "table", rows |-> SelectSeq(Rows, LAMBDA r : r.Timestamp \in Times)]

\* C9: rows whose timestamp does not parse are discarded and the evaluation
\* goes on: a table with valid and invalid timestamps gives the alert that its
\* valid rows alone give.
C9_BadTimestampRowsDiscarded ==
    (returned /\ Parsed # {})
        => alert = AnalyzeResults(ParsedRowsOnly, now).ret[1]

\* C9 holds of the rows whose Timestamp cell is empty: what breaks it is a
\* cell holding text that does not parse. Without such a cell the whole
\* result, batch timestamp included, is that of the valid rows.
C9_WhenTimestampsConvert ==
    (returned /\ Parsed # {} /\ \A i \in 1 .. Len(Rows) : Rows[i].Timestamp # Unparseable)
        => ret = AnalyzeResults(ParsedRowsOnly, now).ret

\* C10: if no timestamp of a non-empty table parses, analyze_results returns
\* alert = false and the wall-clock time of the call.
C10_NoValidTimestampNoAlert ==
    (returned /\ csv_file.kind = "table" /\ Rows # <<>> /\ Parsed = {})
        => ret = <<FALSE, Shown(now)>>

\* C10, its case: two critical failures, one with an empty Timestamp cell and
\* one with a Timestamp that does not parse, read at the latest instant.
C10_Witness ==
    /\ returned /\ Len(Rows) = 2 /\ now = MaxTime /\ ~alert
    /\ Rows[1].Timestamp = NaT /\ Fails(1) /\ Outbound(1)
    /\ Rows[2].Timestamp = Unparseable /\ Fails(2) /\ InboundOn3389(2)

----------------------------------------------------------------------------
(* Malformed cells, missing columns, exceptions *)

\* The table has every column analyze_results reads.
HasAllColumns == \A i \in 1 .. Len(Rows) : DOMAIN Rows[i] = Columns

\* A Success cell that is not a recognisable boolean: empty, a text other
\* than true/false/yes/no in any case, or a number other than 0 and 1.
MalformedSuccess(cell) ==
    /\ lower(cell) \notin {"true", "false", "yes", "no"}
    /\ cell \notin {"0", "1"}

AllTimestampsParse == Parsed = 1 .. Len(Rows)

\* C11: a malformed Success value is treated as false: the row is a failure
\* of its batch and is classified by the rule of a genuine failure, so a
\* malformed Success on an outbound or inbound-3389 row of the latest batch
\* gives alert = true, and the row is never taken for a passing check.
C11_MalformedSuccessFailsClosed ==
    (returned /\ HasAllColumns /\ AllTimestampsParse)
        => \A i \in LatestBatch :
              MalformedSuccess(Rows[i].Success)
                 => /\ Bound("all_failures") /\ i \in Labels(frame.all_failures)
                    /\ Critical(i) => (alert /\ i \in Labels(frame.critical_failures))

\* C11 holds of every log whose Success column casts to boolean: what breaks
\* it is a column of numbers that holds a number other than 0 and 1.
C11_WhenSuccessCasts ==
    (returned /\ HasAllColumns /\ AllTimestampsParse /\ caught # "TypeError")
        => \A i \in LatestBatch :
              MalformedSuccess(Rows[i].Success)
                 => /\ Bound("all_failures") /\ i \in Labels(frame.all_failures)
                    /\ Critical(i) => (alert /\ i \in Labels(frame.critical_failures))

\* C11, the case that holds: an empty Success cell on an outbound row of the
\* latest batch, next to a passing row, alerts.
C11_EmptyCellCase ==
    /\ returned /\ Len(Rows) = 2 /\ HasAllColumns /\ LatestBatch = {1, 2}
    /\ Rows[1].Success = "" /\ Outbound(1) /\ Rows[2].Success = "True"
    /\ alert /\ Labels(frame.critical_failures) = {1}

\* A TargetPort cell that is empty or not a number.
BadPort(i) == Rows[i].TargetPort \notin {"3389", "22"}

InboundBadPort(i) == Rows[i].CheckType = "Inbound Listen Check" /\ BadPort(i)

\* The log with every such TargetPort cell replaced by the number 22.
BadPortsAs22 ==
    [kind |-> csv_file.kind,
     rows |-> [ i \in 1 .. Len(Rows) |->
                  IF BadPort(i) THEN [Rows[i] EXCEPT !.TargetPort = "22"] ELSE Rows[i] ]]

\* C12: a TargetPort that is absent or not numeric never matches the inbound
\* rule: a failed Inbound Listen Check with such a port is a non-critical
\* failure, a batch whose only failures are of this kind does not alert, and
\* the cell does not abort the evaluation: the result is that of the log with
\* an ordinary port other than 3389 in its place.
C12_BadPortNeverCritical ==
    returned
        => /\ \A i \in LatestBatch :
                 (Fails(i) /\ InboundBadPort(i) /\ Bound("all_failures"))
                    => /\ alert => i \notin Labels(frame.critical_failures)
                       /\ ~alert => i \in Labels(frame.non_critical_failures)
           /\ (\A i \in LatestBatch : Fails(i) => InboundBadPort(i)) => ~alert
           /\ ret = AnalyzeResults(BadPortsAs22, now).ret

\* C12, its case: a failed inbound check whose port is not a number, alone in
\* the latest batch after an older passing row, is listed as non-critical.
C12_Witness ==
    /\ returned /\ Len(Rows) = 2 /\ AllTimestampsParse /\ LatestBatch = {2}
    /\ Rows[1].Success = "True"
    /\ Fails(2) /\ Rows[2].CheckType = "Inbound Listen Check" /\ Rows[2].TargetPort = "n/a"
    /\ ~alert /\ Bound("non_critical_failures")
    /\ Labels(frame.non_critical_failures) = {2}

\* An error path of analyze_results: an except clause ran, or the file holds
\* no table.
ErrorPath == caught # "none" \/ csv_file.kind # "table"

\* C13: analyze_results never raises for the data it reads: whatever the log
\* (missing columns, malformed ports, Success values or timestamps, no table)
\* it returns a pair of a boolean and a timestamp string, and alert is false
\* whenever it returned through an error path.
C13_NeverRaises ==
    /\ pc # "raised"
    /\ returned
          => /\ Len(ret) = 2 /\ ret[1] \in BOOLEAN /\ ret[2] \in Nat
             /\ ErrorPath => ret = <<FALSE, Shown(now)>>

\* C13, its case: a log without the CheckType column whose latest batch holds
\* a failure; the KeyError of line 157 is handled and alert is false.
C13_Witness ==
    /\ returned /\ Len(Rows) = 2 /\ caught = "KeyError" /\ ~alert
    /\ DOMAIN Rows[1] = Columns \ {"CheckType"}
    /\ Rows[1].Success = "True" /\ Rows[2].Success = "False"

----------------------------------------------------------------------------
(* The run of the orchestrator *)

\* analyze_results has returned in this run.
analysed == pc \in {"done", "email", "finished"}

\* The calls of the email sender.
EmailCalls == { k \in 1 .. Len(calls) : calls[k].fn = "send_email_notification" }

\* The graph step of this run produced a non-empty graph.
GraphOfThisRun == graph_file = "fresh"

\* C14: in a run the email sender is called only if the analysis returned
\* alert = true and the graph step of this run produced a non-empty graph;
\* with alert false, or the graph not produced or skipped, no email is
\* attempted.
C14_EmailOnlyWithAlertAndGraphOfThisRun ==
    /\ EmailCalls # {} => (alert /\ GraphOfThisRun)
    /\ (pc = "finished" /\ (~alert \/ ~GraphOfThisRun)) => EmailCalls = {}

\* C14 holds with "a non-empty file is at graph_output_path after the graph
\* step" in the place of "the graph step of this run produced the graph".
C14_WithAnyGraphFile ==
    /\ EmailCalls # {}
          => (alert /\ main.graph_generated /\ graph_file \in {"stale", "fresh"})
    /\ (pc = "finished" /\ (~alert \/ ~main.graph_generated)) => EmailCalls = {}

\* Every result a collaborator gave __main__ is a boolean, and no exception
\* left a collaborator.
ResultsAreBooleans ==
    /\ pc # "raised"
    /\ \A v \in {"ps_success", "graph_generated", "email_success"} :
          v \in DOMAIN main => main[v] \in BOOLEAN
    /\ \A o \in PowershellOutcomes :
          /\ ~Escapes(o.raised, PowershellExceptClauses)
          /\ run_powershell_script(o) \in BOOLEAN
    /\ \A o \in PlotterOutcomes, e \in BOOLEAN, f \in {"absent", "empty", "stale", "fresh"} :
          /\ ~Escapes(o.raised, PlotterExceptClauses)
          /\ generate_graph(e, o, f) \in BOOLEAN
    /\ \A o \in MailerOutcomes, a \in BOOLEAN, e \in BOOLEAN :
          /\ ~Escapes(o.raised, MailerExceptClauses)
          /\ send_email_notification(a, e, o) \in BOOLEAN

\* C15: run_powershell_script, generate_graph and send_email_notification
\* give True or False for every outcome of their subprocess (no executable, no
\* script, non-zero exit, timeout, any other exception), never an exception,
\* and the run goes on to its end after any of them gave False.
C15_CollaboratorFailuresAreResults ==
    /\ []ResultsAreBooleans
    /\ (pc = "start" /\ ~main.ps_success) ~> (pc = "finished")
    /\ (pc = "email" /\ ~main.graph_generated) ~> (pc = "finished")
    /\ []((pc # "checks" /\ "email_success" \in DOMAIN main) => pc = "finished")

\* C15, its case: a run that reached its end after the collector and the
\* email sender both gave False.
C15_Witness ==
    /\ pc = "finished"
    /\ ~main.ps_success
    /\ "email_success" \in DOMAIN main /\ ~main.email_success

\* The largest instant of the Timestamp column, as the string shows it.
MaxParsedShown ==
    Shown(CHOOSE t \in { Rows[i].Timestamp : i \in Parsed } :
              \A i \in Parsed : Rows[i].Timestamp <= t)

\* C16: the timestamp analyze_results returns is that of the batch: whenever
\* a timestamp of the table parses it is the largest one, formatted to the
\* second, with alert true or false; it is the wall-clock time of the call only
\* when no timestamp parses; and the email body carries exactly this value.
C16_TimestampIsLatestBatch ==
    analysed
        => /\ (csv_file.kind = "table" /\ Parsed # {}) => ret[2] = MaxParsedShown
           /\ (csv_file.kind # "table" \/ Parsed = {}) => ret[2] = Shown(now)
           /\ \A k \in EmailCalls :
                 calls[k].body = [template |-> EMAIL_BODY_FAILURE, timestamp |-> ret[2]]

\* C16 holds of every log whose Timestamp column converts (see C9).
C16_WhenTimestampsConvert ==
    (analysed /\ \A i \in 1 .. Len(Rows) : Rows[i].Timestamp # Unparseable)
        => /\ (csv_file.kind = "table" /\ Parsed # {}) => ret[2] = MaxParsedShown
           /\ (csv_file.kind # "table" \/ Parsed = {}) => ret[2] = Shown(now)
           /\ \A k \in EmailCalls :
                 calls[k].body = [template |-> EMAIL_BODY_FAILURE, timestamp |-> ret[2]]

\* C18: analyze_results leaves the log as it found it, on every path: the
\* file after the call is the file before it.
C18_LogUnchanged == [][pc = "start" => csv_file' = csv_file]_vars

\* C18, its case: analyze_results has returned on a log the collector of this
\* run had appended to, with a frame whose cells it converted.
C18_Witness ==
    /\ pc = "done" /\ Len(Rows) = 2 /\ Rows[2] \in NewRows
    /\ Bound("latest_results") /\ frame.latest_results[1].TargetPort = 3389

----------------------------------------------------------------------------
(* Repeated invocations *)

\* C17: two invocations of analyze_results on the same table return the same
\* result, alert and timestamp, whatever was invoked before and whenever they
\* run.
C17_SameResultWheneverRun ==
    returned => \A k \in 1 .. Len(earlier) : earlier[k].ret = ret

\* C17 as it holds: the alert is the same in every invocation on the same
\* table, and so is the timestamp whenever a batch was evaluated; when none
\* was (no data, or an error path) each invocation returns the wall-clock
\* time of its own call.
C17_SameAlertAndBatchTimestamp ==
    returned
        => \A k \in 1 .. Len(earlier) :
              /\ earlier[k].ret[1] = alert
              /\ Bound("latest_timestamp") => earlier[k].ret = ret
              /\ ~Bound("latest_timestamp")
                    => /\ ret[2] = Shown(now)
                       /\ earlier[k].ret[2] = Shown(earlier[k].now)

\* C17, its cases: a second invocation in a later second than the first, on
\* a log whose batch alerts, and one on a log without rows.
C17_Witness ==
    /\ returned /\ Len(earlier) = 1 /\ Shown(earlier[1].now) # Shown(now)
    /\ Rows # <<>> /\ alert /\ earlier[1].ret = ret

C17_NoDataCase ==
    /\ returned /\ Len(earlier) = 1 /\ Shown(earlier[1].now) # Shown(now)
    /\ csv_file.kind = "table" /\ Rows = <<>> /\ earlier[1].ret # ret

----------------------------------------------------------------------------
(* The time window of the plotter *)

\* days_to_display is a positive integer (True is the integer 1).
PositiveInteger(d) == d.type \in {"int", "bool"} /\ d.value > 0

\* The rows at or after now - days_to_display days.
InWindow ==
    { i \in 1 .. Len(Rows) :
        /\ Rows[i].Timestamp \in Nat
        /\ Rows[i].Timestamp >= now - call.days_to_display.value * TicksPerDay }

\* C19: plot_network_diagnostics windows the data only when days_to_display
\* is a positive integer: then exactly the rows with Timestamp >= now -
\* days_to_display days are kept, in their order; when it is None, zero,
\* negative or not an integer, all rows are kept.
C19_WindowOnlyForPositiveDays ==
    (pc = "plotted" /\ ~out.stopped)
        => /\ \A k \in 1 .. Len(out.df) - 1 : out.df[k].Index < out.df[k + 1].Index
           /\ IF PositiveInteger(call.days_to_display)
              THEN Labels(out.df) = InWindow
              ELSE Labels(out.df) = 1 .. Len(Rows)

\* C19, its cases: with days_to_display = 1, of a row one tick before the
\* cutoff and a row at the cutoff only the second is kept; with
\* days_to_display = 0 both are.
C19_Witness ==
    /\ pc = "plotted" /\ ~out.stopped /\ Len(Rows) = 2
    /\ call.days_to_display = [type |-> "int", value |-> 1]
    /\ Rows[1].Timestamp = now - TicksPerDay - 1
    /\ Rows[2].Timestamp = now - TicksPerDay
    /\ Labels(out.df) = {2}

C19_ZeroDaysCase ==
    /\ pc = "plotted" /\ ~out.stopped /\ Len(Rows) = 2
    /\ call.days_to_display = [type |-> "int", value |-> 0]
    /\ Rows[1].Timestamp = now - TicksPerDay - 1
    /\ Labels(out.df) = {1, 2}

----------------------------------------------------------------------------
(* The month filter of the heatmap *)

\* The loaded records dated in the month and year asked for.
InMonth ==
    { i \in 1 .. Len(call.df.rows) :
        call.df.rows[i][1] = call.year /\ call.df.rows[i][2] = call.month }

\* C20: _filter_for_specific_month(year, month) returns exactly the loaded
\* records whose timestamp lies in that month of that year, from the first
\* instant of its first day to the last instant of its last day, in their
\* order; it returns None when the data was not loaded, when month is outside
\* 1..12, and when no record falls in the month.
C20_ExactlyTheMonth ==
    pc = "filtered"
        => IF ~call.df.loaded \/ call.month \notin 1 .. 12 \/ InMonth = {}
           THEN out.none
           ELSE /\ ~out.none
                /\ Labels(out.df) = InMonth
                /\ Len(out.df) = Cardinality(InMonth)
                /\ \A k \in 1 .. Len(out.df) : out.df[k].timestamp = call.df.rows[out.df[k].Index]
                /\ \A k \in 1 .. Len(out.df) - 1 : out.df[k].Index < out.df[k + 1].Index

\* C20, its cases: February of a leap year, with a record at the last instant
\* of January, one at the last instant of the 29th; and a month without
\* records.
C20_Witness ==
    /\ pc = "filtered" /\ call.year = 2024 /\ call.month = 2
    /\ call.df.loaded /\ Len(call.df.rows) = 2
    /\ call.df.rows[1] = <<2024, 1, 31, EndOfDay>>
    /\ call.df.rows[2] = <<2024, 2, 29, EndOfDay>>
    /\ ~out.none /\ Labels(out.df) = {2}

C20_NoRecordCase ==
    /\ pc = "filtered" /\ call.month = 3 /\ call.df.loaded
    /\ \A i \in 1 .. Len(call.df.rows) : call.df.rows[i][2] # 3
    /\ out.none

----------------------------------------------------------------------------
\* C27: once analyze_results has a latest timestamp (at least one timestamp
\* is valid), the batch selected for it holds at least one row, so the
\* evaluation always goes on to the failures of the batch: the return of
\* (False, latest timestamp) for an empty batch never happens.
C27_LatestBatchNeverEmpty ==
    (pc \in {"done", "raised"} /\ Bound("latest_timestamp"))
        => /\ Bound("latest_results") /\ frame.latest_results # <<>>
           /\ \E k \in 1 .. Len(frame.latest_results) :
                  frame.latest_results[k].Timestamp = frame.latest_timestamp
           /\ Bound("all_failures")

\* C27, its case: a table with one row whose timestamp is missing and one
\* row with a valid timestamp; the batch is the valid row.
C27_Witness ==
    /\ returned /\ csv_file.kind = "table" /\ Len(Rows) = 2
    /\ Rows[1].Timestamp = NaT /\ Rows[2].Timestamp \in Times
    /\ Bound("latest_timestamp") /\ Labels(frame.latest_results) = {2}

----------------------------------------------------------------------------
\* The call of one of the three functions that start a subprocess returned.
Returned(fn) == pc = "returned" /\ call.fn = fn

\* subprocess.run gave the function a finished process.
ProcessEnded == out.started /\ call.outcome.raised = "none"

\* A non-empty file is at graph_output_path.
NonEmptyGraphFile == graph_file \in {"stale", "fresh"}

\* C21: once the plotter process has ended, generate_graph returns True
\* exactly when a non-empty file is at output_path, whatever the exit code of
\* the plotter and whoever wrote the file: a graph left by an earlier run
\* gives True as well.
C21_SuccessIsTheOutputFile ==
    (Returned("generate_graph") /\ ProcessEnded) => (out.returned <=> NonEmptyGraphFile)

\* C21, its cases: the plotter ends with exit code 1 after writing the graph;
\* and the plotter writes nothing while an earlier run's graph is at
\* output_path.
C21_Witness ==
    /\ Returned("generate_graph") /\ ProcessEnded
    /\ call.outcome.returncode = 1 /\ graph_file = "fresh" /\ out.returned

C21_EarlierGraphCase ==
    /\ Returned("generate_graph") /\ ProcessEnded
    /\ call.outcome.wrote = "nothing" /\ graph_file = "stale" /\ out.returned

----------------------------------------------------------------------------
\* C24: send_email_notification returns True exactly when the mailer process
\* was started, ended with exit code 0 and printed SUCCESS on stdout; when the
\* attachment or the VBScript file does not exist it returns False and the
\* mailer is not started; when the mailer runs into the timeout it returns
\* False.
C24_MailSentOnlyOnSuccess ==
    Returned("send_email_notification")
        => /\ out.returned <=> /\ ProcessEnded
                               /\ call.outcome.returncode = 0
                               /\ call.outcome.stdout_has_SUCCESS
           /\ (graph_file = "absent" \/ "SendEmail2Admin_HTML.vbs" \notin scripts)
                 => ~out.started /\ ~out.returned
           /\ (graph_file # "absent" /\ "SendEmail2Admin_HTML.vbs" \in scripts)
                 => out.started
           /\ (out.started /\ call.outcome.raised = "TimeoutExpired") => ~out.returned

\* C24, its cases: a mail sent; exit code 0 without SUCCESS on stdout; the
\* attachment missing; the timeout.
C24_Witness ==
    /\ Returned("send_email_notification") /\ ProcessEnded
    /\ call.outcome.returncode = 0 /\ call.outcome.stdout_has_SUCCESS /\ out.returned

C24_NoSuccessTextCase ==
    /\ Returned("send_email_notification") /\ ProcessEnded
    /\ call.outcome.returncode = 0 /\ ~call.outcome.stdout_has_SUCCESS /\ ~out.returned

C24_MissingAttachmentCase ==
    /\ Returned("send_email_notification") /\ graph_file = "absent"
    /\ "SendEmail2Admin_HTML.vbs" \in scripts /\ ~out.started /\ ~out.returned

C24_TimeoutCase ==
    /\ Returned("send_email_notification") /\ out.started
    /\ call.outcome.raised = "TimeoutExpired" /\ ~out.returned

----------------------------------------------------------------------------
\* C25: run_powershell_script returns True exactly when the collector process
\* ended with exit code 0 and its stderr holds neither 'FATAL: Failed to
\* write results to CSV' nor both 'Access to the path' and 'is denied'; exit
\* code 0 with a CSV-write failure on stderr gives False.
C25_CollectorSuccess ==
    Returned("run_powershell_script")
        => (out.returned <=>
              /\ ProcessEnded
              /\ call.outcome.returncode = 0
              /\ "FATAL: Failed to write results to CSV" \notin call.outcome.stderr
              /\ ~ ({"Access to the path", "is denied"} \subseteq call.outcome.stderr))

\* C25, its cases: exit code 0 with the access-denied pair on stderr; and
\* exit code 0 with 'is denied' alone, which is no CSV-write failure.
C25_Witness ==
    /\ Returned("run_powershell_script") /\ ProcessEnded
    /\ call.outcome.returncode = 0
    /\ call.outcome.stderr = {"Access to the path", "is denied"} /\ ~out.returned

C25_OnePhraseCase ==
    /\ Returned("run_powershell_script") /\ ProcessEnded
    /\ call.outcome.returncode = 0
    /\ call.outcome.stderr = {"is denied"} /\ out.returned

----------------------------------------------------------------------------
\* The calls __main__ has made of the function fn.
CallsOf(fn) == { k \in 1 .. Len(calls) : calls[k].fn = fn }

\* The steps of a run: the collector, the analysis, the graph, the email.
Steps == {"run_powershell_script", "analyze_results", "generate_graph",
          "send_email_notification"}

\* C23: if one of the three script files is missing at start-up, the run ends
\* with exit status 1 after the checks and before the collector, the
\* analysis, the graph and the email; each of the three files has been
\* checked by then and each missing one reported.
C23_MissingScriptAborts ==
    (scripts # Scripts /\ pc # "checks")
        => /\ pc = "exited" /\ main.abort /\ main.exit_status = 1
           /\ \A fn \in Steps : CallsOf(fn) = {}
           /\ ret = << >> /\ now = NaT
           /\ { calls[k].filepath : k \in CallsOf("check_file_exists") } = Scripts
           /\ { calls[k].filepath : k \in { j \in CallsOf("check_file_exists") :
                                                calls[j].reported } }
                 = Scripts \ scripts

\* C23, its case: the collector script and the mailer script are both
\* missing; both are reported and the run is over.
C23_Witness ==
    /\ scripts = {"NDP.py"} /\ pc = "exited" /\ main.exit_status = 1
    /\ Len(calls) = 3
    /\ calls[1].reported /\ ~calls[2].reported /\ calls[3].reported

----------------------------------------------------------------------------
\* The place of a step in the order of a run.
Rank(fn) ==
    CASE fn = "check_file_exists" -> 0
      [] fn = "run_powershell_script" -> 1
      [] fn = "analyze_results" -> 2
      [] fn = "generate_graph" -> 3
      [] fn = "send_email_notification" -> 4

\* The steps called so far were called in the order collector, analysis,
\* graph, email, each once, and none before the step that precedes it (the
\* graph step makes no call when the log does not exist).
StepsInOrder ==
    /\ \A j, k \in 1 .. Len(calls) :
          (j < k /\ calls[k].fn \in Steps) => Rank(calls[j].fn) < Rank(calls[k].fn)
    /\ CallsOf("analyze_results") # {} => CallsOf("run_powershell_script") # {}
    /\ CallsOf("generate_graph") # {} => CallsOf("analyze_results") # {}
    /\ CallsOf("send_email_notification") # {}
          => (CallsOf("generate_graph") # {} /\ pc = "finished")
    /\ pc \in {"done", "email", "finished"} => CallsOf("analyze_results") # {}
    /\ pc \in {"email", "finished"}
          => (CallsOf("generate_graph") # {} <=> csv_file.kind # "missing")

\* After a failed collector the run has gone on: by its end the analysis was
\* made of the log as it then is, and the email was attempted if the alert
\* and the graph are there.
FailedCollectorGoesOn ==
    ("ps_success" \in DOMAIN main /\ ~main.ps_success)
        => /\ pc \in {"start", "done", "email", "finished"}
           /\ pc \in {"done", "email", "finished"} => ret = AnalyzeResults(csv_file, now).ret
           /\ pc = "finished"
                 => (CallsOf("send_email_notification") # {}
                       <=> (ret[1] /\ main.graph_generated))

\* C22: a run calls its steps in the order collector, analysis, graph, email
\* (the email only if the criteria are met), and a failed collector does not
\* stop it: every run that starts the collector reaches its end, with the
\* analysis, the graph and the email made of the log as it is after the
\* collector, which may hold no row of this run.
C22_StepsInOrderToTheEnd ==
    /\ [](StepsInOrder /\ FailedCollectorGoesOn)
    /\ (pc = "collector") ~> (pc = "finished")

\* C22, its case: the collector failed and wrote nothing, the log holds only
\* rows of an earlier run, and all four steps were made in order, the email
\* reporting the earlier batch.
C22_Witness ==
    /\ pc = "finished" /\ ~main.ps_success
    /\ csv_file.kind = "table" /\ Rows # << >>
    /\ \A i \in 1 .. Len(Rows) : Rows[i] \in OldRows
    /\ ret = <<TRUE, Shown(0)>>
    /\ [ k \in 4 .. Len(calls) |-> calls[k].fn ]
         = [ k \in 4 .. 7 |-> CASE k = 4 -> "run_powershell_script"
                                 [] k = 5 -> "analyze_results"
                                 [] k = 6 -> "generate_graph"
                                 [] k = 7 -> "send_email_notification" ]

----------------------------------------------------------------------------
\* The month a typed line stands for is one of 1..12.
EntersMonth(line) == ~int_raises(line) /\ int(line) \in 1 .. 12

\* A pass of the loop on a line that is no month prompts again and leaves
\* selected_month as it is; a pass on a month leaves the loop with it.
PromptStep ==
    (pc = "prompt" /\ call.stdin # << >>)
        => IF EntersMonth(Head(call.stdin))
           THEN pc' = "selected" /\ out'.selected_month = int(Head(call.stdin))
           ELSE /\ pc' = "prompt"
                /\ out'.selected_month = out.selected_month
                /\ Len(out'.printed) = Len(out.printed) + 1

\* C26: the month prompt loops until it has a valid month: the loop is left
\* with selected_month an integer of 1..12 and in no other way, every line
\* that is not a number or is outside 1..12 is followed by another prompt with
\* selected_month unchanged, and a closed input stream ends the program with
\* exit status 1, no month selected.
C26_PromptUntilValidMonth ==
    /\ [](pc = "prompt" => out.selected_month = None)
    /\ [](pc = "selected" => out.selected_month \in 1 .. 12)
    /\ [](pc = "exited" => /\ out.exit_status = 1 /\ out.selected_month = None
                           /\ call.stdin = << >>)
    /\ [][PromptStep]_vars
    /\ (pc = "prompt") ~> (pc \in {"selected", "exited"})

\* C26, its cases: a month entered after a number outside the range; and a
\* stream closed after a line that is no number.
C26_Witness ==
    /\ pc = "selected" /\ out.selected_month = 12
    /\ out.printed = <<"Invalid input. Please enter a number between 1 and 12.">>

C26_ClosedStreamCase ==
    /\ pc = "exited" /\ out.exit_status = 1
    /\ out.printed = <<"Invalid input. Please enter a number.">>

====
